---- MODULE Spec2Model ----
(***************************************************************************)
(* Model of avalon_crypto_utils/signature.py (class ClientSignature):      *)
(* canonical hashing of work-order payloads, request signing, and the      *)
(* one-step / two-step verification of work-order responses and receipts.  *)
(*                                                                         *)
(* Conventions                                                             *)
(*  - A Python dict is a TLA+ record; "k in d" is  k \in DOMAIN d , and a  *)
(*    subscript d[k] on a missing key raises KeyError.                     *)
(*  - str values and their UTF-8 bytes are both character strings; the     *)
(*    payload strings considered are ASCII.  + on str/bytes is \o.         *)
(*  - A call's outcome is a record [kind, value, trace]: kind "return" or  *)
(*    "raise" (an exception leaving the function), value the returned      *)
(*    object or the exception's name, trace the cryptographic primitives   *)
(*    and sub-steps the call ran, in order.                                *)
(*  - Python's None as an optional argument is the empty tuple <<>>, a     *)
(*    given argument x is <<x>>; a function falling off its end returns    *)
(*    the value "None".                                                    *)
(***************************************************************************)
EXTENDS Integers, Sequences, FiniteSets, TLC

VARIABLES op, inp, out, pc,
          self_private_key, self_public_key, tpc, targ, tret

vars == <<op, inp, out, pc, self_private_key, self_public_key, tpc, targ, tret>>

seqVars == <<op, inp, out, pc>>

thrVars == <<self_private_key, self_public_key, tpc, targ, tret>>

(***************************************************************************)
(* Bounds of the model                                                     *)
(***************************************************************************)
\* longest inData / outData list handed to calculate_datahash on its own
MaxItems == 2

\* longest outData list of a work-order response being verified
MaxOutItems == 2

\* longest inData list of a work-order request being signed
MaxInItems == 2

\* largest value of a data item's index
MaxIndex == 1

(***************************************************************************)
(* Outcomes                                                                *)
(***************************************************************************)
PASSED == "PASSED"

FAILED == "FAILED"

INVALID_SIGNATURE_FORMAT == "INVALID_SIGNATURE_FORMAT"

INVALID_VERIFICATION_KEY == "INVALID_VERIFICATION_KEY"

SignatureStatus == {PASSED, FAILED, INVALID_SIGNATURE_FORMAT, INVALID_VERIFICATION_KEY}

PyNone == "None"

Ret(v, tr) == [kind |-> "return", value |-> v, trace |-> tr]

Raise(e, tr) == [kind |-> "raise", value |-> e, trace |-> tr]

\* the first key of the sequence ks that dict d lacks, as <<k>>; <<>> if none
RECURSIVE FirstMissing(_, _)
FirstMissing(d, ks) ==
    IF ks = <<>> THEN <<>>
    ELSE IF Head(ks) \notin DOMAIN d THEN <<Head(ks)>>
    ELSE FirstMissing(d, Tail(ks))

(***************************************************************************)
(* The cryptographic capability (crypto_utility, ecdsa, hashlib).          *)
(* SHA-256 is taken collision-free: an injective function of its input.    *)
(***************************************************************************)
compute_message_hash(msg) == "H(" \o msg \o ")"

byte_array_to_base64(b) == "b64(" \o b \o ")"

\* encrypt_data(data, key, iv): ciphertext determined by all three
encrypt_data(data, key, iv) == "E[" \o key \o "," \o iv \o "](" \o data \o ")"

byte_array_to_hex_str(b) == "hex(" \o b \o ")"

\* crypto_utility.get_verifying_key: the PEM public key of a private key
get_verifying_key(private_key) == "PEM:" \o private_key

\* private keys of the model; "kW" is the worker's long-lived key, "kE" a
\* short-lived session key, "k1"/"k2" requesters' keys
PrivateKeys == {"kW", "kE", "k1", "k2"}

\* VerifyingKey.from_pem: the key a PEM string parses to, as <<k>>; <<>> when
\* the string is no PEM public key (from_pem raises)
from_pem(pem) ==
    IF \E k \in PrivateKeys : pem = get_verifying_key(k)
    THEN <<CHOOSE k \in PrivateKeys : pem = get_verifying_key(k)>>
    ELSE <<>>

\* DER bytes of the deterministic ECDSA signature of digest under private_key
sign_digest_deterministic(private_key, digest) ==
    [der |-> TRUE, key |-> private_key, digest |-> digest]

\* bytes that are not a DER signature
MalformedDer == [der |-> FALSE, key |-> "-", digest |-> "-"]

\* base64 transport form of signature bytes
signature_to_base64(sigbytes) == [b64 |-> TRUE, bytes |-> sigbytes]

\* a transport string that is not base64
Undecodable == [b64 |-> FALSE, bytes |-> MalformedDer]

\* crypto_utility.base64_to_byte_array: <<bytes>>, or <<>> when it raises
base64_to_byte_array(s) == IF s.b64 THEN <<s.bytes>> ELSE <<>>

\* VerifyingKey.verify_digest(sig, digest, sigdecode=sigdecode_der) under the
\* public key of private key k.  prim is how the primitive reports a
\* signature that does not match: "raise" (BadSignatureError) or "false".
verify_digest(k, sigbytes, digest, prim) ==
    IF ~sigbytes.der THEN "raise:Malformed formatting of signature"
    ELSE IF sigbytes.key = k /\ sigbytes.digest = digest THEN "true"
    ELSE IF prim = "raise" THEN "raise:BadSignatureError"
    ELSE "false"

(***************************************************************************)
(* calculate_datahash                                                      *)
(***************************************************************************)
\* insert item x into the index-sorted list s behind every item whose index
\* is not larger (list.sort is stable)
RECURSIVE InsertByIndex(_, _)
InsertByIndex(x, s) ==
    IF s = <<>> THEN <<x>>
    ELSE IF s[Len(s)].index <= x.index THEN Append(s, x)
    ELSE Append(InsertByIndex(x, SubSeq(s, 1, Len(s) - 1)), s[Len(s)])

\* mutant: the sort by index left out
SortByIndex_omitted(s) == s

\* data_objects.sort(key=lambda x: x['index'])
RECURSIVE SortByIndex(_)
SortByIndex(s) ==
    IF s = <<>> THEN <<>>
    ELSE InsertByIndex(s[Len(s)], SortByIndex(SubSeq(s, 1, Len(s) - 1)))

OptField(item, f) == IF f \in DOMAIN item THEN item[f] ELSE ""

\* mutant: the iv left out of the concatenation
ItemHash_without_iv(item) ==
    byte_array_to_base64(compute_message_hash(
        OptField(item, "dataHash") \o item.data
        \o OptField(item, "encryptedDataEncryptionKey")))

\* the loop body: base64(sha256(dataHash + data + eKey + iv)) of one item
ItemHash(item) ==
    byte_array_to_base64(compute_message_hash(
        OptField(item, "dataHash") \o item.data
        \o OptField(item, "encryptedDataEncryptionKey") \o OptField(item, "iv")))

RECURSIVE HashLoop(_)
HashLoop(s) == IF s = <<>> THEN "" ELSE ItemHash(Head(s)) \o HashLoop(Tail(s))

HashTrace(s) == [i \in 1..Len(s) |-> "sha256"]

\* calculate_datahash(data_objects): kind/value as for any call, objects the
\* list as the call leaves it (it is sorted in place)
calculate_datahash(data_objects) ==
    IF \E i \in 1..Len(data_objects) : "index" \notin DOMAIN data_objects[i]
    THEN [kind |-> "raise", value |-> "KeyError", trace |-> <<>>,
          objects |-> data_objects]
    ELSE LET sorted == SortByIndex(data_objects)
             bad == {i \in 1..Len(sorted) : "data" \notin DOMAIN sorted[i]}
         IN IF bad # {}
            THEN LET first == CHOOSE i \in bad : \A j \in bad : i <= j
                 IN [kind |-> "raise", value |-> "KeyError",
                     trace |-> HashTrace(SubSeq(sorted, 1, first - 1)),
                     objects |-> sorted]
            ELSE [kind |-> "return", value |-> HashLoop(sorted),
                  trace |-> HashTrace(sorted), objects |-> sorted]

\* __calculate_hash_on_concatenated_string(input_json_params, nonce)
calculate_hash_on_concatenated_string(params, nonce) ==
    LET miss == FirstMissing(params, <<"workOrderId", "workerId", "requesterId">>)
    IN IF miss # <<>> THEN Raise("KeyError", <<>>)
       ELSE Ret(byte_array_to_base64(compute_message_hash(
                    nonce \o params.workOrderId \o params.workerId
                    \o OptField(params, "workloadId") \o params.requesterId)),
                <<"sha256">>)

(***************************************************************************)
(* Verification                                                            *)
(***************************************************************************)
\* The part the four verification functions share: parse the PEM key, decode
\* the signature, verify it against digest, map the outcome to a status.
\* tr is the trace of the caller so far.
ParseDecodeVerify(pem, signature, digest, tr, prim) ==
    LET vk == from_pem(pem)
    IN IF vk = <<>> THEN Ret(INVALID_VERIFICATION_KEY, tr \o <<"from_pem">>)
       ELSE LET dec == base64_to_byte_array(signature)
            IN IF dec = <<>>
               THEN Raise("binascii.Error", tr \o <<"from_pem", "b64decode">>)
               ELSE LET r == verify_digest(vk[1], dec[1], digest, prim)
                        tr2 == tr \o <<"from_pem", "b64decode", "verify_digest">>
                    IN CASE r = "true" -> Ret(PASSED, tr2)
                         [] r = "false" -> Ret(PyNone, tr2)
                         [] r = "raise:Malformed formatting of signature" ->
                                Ret(INVALID_SIGNATURE_FORMAT, tr2)
                         [] OTHER -> Ret(FAILED, tr2)

\* _verify_wo_response_signature(wo_response, wo_res_verification_key)
verify_wo_response_signature(wo_response, wo_res_verification_key, prim) ==
    IF FirstMissing(wo_response, <<"workerNonce", "workerSignature">>) # <<>>
    THEN Raise("KeyError", <<>>)
    ELSE LET h1 == calculate_hash_on_concatenated_string(
                       wo_response, wo_response.workerNonce)
         IN IF h1.kind = "raise" THEN h1
            ELSE IF "outData" \notin DOMAIN wo_response
            THEN Raise("KeyError", h1.trace)
            ELSE LET h2 == calculate_datahash(wo_response.outData)
                 IN IF h2.kind = "raise"
                    THEN Raise(h2.value, h1.trace \o h2.trace)
                    ELSE ParseDecodeVerify(
                             wo_res_verification_key,
                             wo_response.workerSignature,
                             compute_message_hash(h1.value \o h2.value),
                             h1.trace \o h2.trace \o <<"sha256">>, prim)

\* mutant: a missing requester_nonce taken as the empty string instead of
\* being rejected up front
verify_wo_verification_key_signature_late(wo_response, wo_verification_key, requester_nonce, prim) ==
    IF FirstMissing(wo_response,
           <<"extVerificationKey", "extVerificationKeySignature">>) # <<>>
    THEN Raise("KeyError", <<>>)
    ELSE LET r == ParseDecodeVerify(
                      wo_verification_key,
                      wo_response.extVerificationKeySignature,
                      compute_message_hash(
                          wo_response.extVerificationKey
                          \o (IF requester_nonce = <<>> THEN ""
                              ELSE requester_nonce[1])),
                      <<"sha256">>, prim)
         IN IF requester_nonce = <<>> THEN Ret(FAILED, r.trace) ELSE r

\* _verify_wo_verification_key_signature(wo_response, wo_verification_key,
\*                                       requester_nonce)
verify_wo_verification_key_signature(wo_response, wo_verification_key, requester_nonce, prim) ==
    IF requester_nonce = <<>> THEN Ret(FAILED, <<>>)
    ELSE IF FirstMissing(wo_response,
                <<"extVerificationKey", "extVerificationKeySignature">>) # <<>>
    THEN Raise("KeyError", <<>>)
    ELSE ParseDecodeVerify(
             wo_verification_key,
             wo_response.extVerificationKeySignature,
             compute_message_hash(
                 wo_response.extVerificationKey \o requester_nonce[1]),
             <<"sha256">>, prim)

Step1 == "call:_verify_wo_verification_key_signature"

Step2 == "call:_verify_wo_response_signature"

\* mutant: step 2 runs unless step 1 returned FAILED
verify_signature_unless_failed(wo_response, wo_res_verification_key, requester_nonce, prim) ==
    IF "extVerificationKey" \in DOMAIN wo_response
    THEN LET status == verify_wo_verification_key_signature(
                           wo_response, wo_res_verification_key,
                           requester_nonce, prim)
         IN IF status.kind = "raise"
            THEN Raise(status.value, <<Step1>> \o status.trace)
            ELSE IF status.value # FAILED
            THEN LET r == verify_wo_response_signature(
                              wo_response, wo_response.extVerificationKey, prim)
                 IN [r EXCEPT !.trace =
                        <<Step1>> \o status.trace \o <<Step2>> \o r.trace]
            ELSE Ret(status.value, <<Step1>> \o status.trace)
    ELSE LET r == verify_wo_response_signature(
                      wo_response, wo_res_verification_key, prim)
         IN [r EXCEPT !.trace = <<Step2>> \o r.trace]

\* mutant: step 2 verifies under the long-lived worker key
verify_signature_worker_key(wo_response, wo_res_verification_key, requester_nonce, prim) ==
    IF "extVerificationKey" \in DOMAIN wo_response
    THEN LET status == verify_wo_verification_key_signature(
                           wo_response, wo_res_verification_key,
                           requester_nonce, prim)
         IN IF status.kind = "raise"
            THEN Raise(status.value, <<Step1>> \o status.trace)
            ELSE IF status.value = PASSED
            THEN LET r == verify_wo_response_signature(
                              wo_response, wo_res_verification_key, prim)
                 IN [r EXCEPT !.trace =
                        <<Step1>> \o status.trace \o <<Step2>> \o r.trace]
            ELSE Ret(status.value, <<Step1>> \o status.trace)
    ELSE LET r == verify_wo_response_signature(
                      wo_response, wo_res_verification_key, prim)
         IN [r EXCEPT !.trace = <<Step2>> \o r.trace]

\* verify_signature(wo_response, wo_res_verification_key, requester_nonce)
verify_signature(wo_response, wo_res_verification_key, requester_nonce, prim) ==
    IF "extVerificationKey" \in DOMAIN wo_response
    THEN LET status == verify_wo_verification_key_signature(
                           wo_response, wo_res_verification_key,
                           requester_nonce, prim)
         IN IF status.kind = "raise"
            THEN Raise(status.value, <<Step1>> \o status.trace)
            ELSE IF status.value = PASSED
            THEN LET r == verify_wo_response_signature(
                              wo_response, wo_response.extVerificationKey, prim)
                 IN [r EXCEPT !.trace =
                        <<Step1>> \o status.trace \o <<Step2>> \o r.trace]
            ELSE Ret(status.value, <<Step1>> \o status.trace)
    ELSE LET r == verify_wo_response_signature(
                      wo_response, wo_res_verification_key, prim)
         IN [r EXCEPT !.trace = <<Step2>> \o r.trace]

\* str() of the small integers used as updateType / receiptCreateStatus
Str(n) == CASE n = 0 -> "0" [] n = 1 -> "1" [] n = 2 -> "2" [] OTHER -> "3"

\* verify_update_receipt_signature(input_json)
verify_update_receipt_signature(input_json, prim) ==
    IF FirstMissing(input_json,
           <<"workOrderId", "updateType", "updateData", "updateSignature",
             "receiptVerificationKey">>) # <<>>
    THEN Raise("KeyError",
               IF FirstMissing(input_json,
                      <<"workOrderId", "updateType", "updateData">>) # <<>>
               THEN <<>> ELSE <<"sha256">>)
    ELSE ParseDecodeVerify(
             input_json.receiptVerificationKey,
             input_json.updateSignature,
             compute_message_hash(
                 input_json.workOrderId \o Str(input_json.updateType)
                 \o input_json.updateData),
             <<"sha256">>, prim)

\* verify_create_receipt_signature(input_json)
verify_create_receipt_signature(input_json, prim) ==
    IF "params" \notin DOMAIN input_json THEN Raise("KeyError", <<>>)
    ELSE LET p == input_json.params
         IN IF FirstMissing(p,
                   <<"workOrderId", "workerServiceId", "workerId",
                     "requesterId", "receiptCreateStatus",
                     "workOrderRequestHash", "requesterGeneratedNonce",
                     "requesterSignature", "receiptVerificationKey">>) # <<>>
            THEN Raise("KeyError",
                       IF FirstMissing(p,
                              <<"workOrderId", "workerServiceId", "workerId",
                                "requesterId", "receiptCreateStatus",
                                "workOrderRequestHash",
                                "requesterGeneratedNonce">>) # <<>>
                       THEN <<>> ELSE <<"sha256">>)
            ELSE ParseDecodeVerify(
                     p.receiptVerificationKey,
                     p.requesterSignature,
                     compute_message_hash(
                         p.workOrderId \o p.workerServiceId \o p.workerId
                         \o p.requesterId \o Str(p.receiptCreateStatus)
                         \o p.workOrderRequestHash \o p.requesterGeneratedNonce),
                     <<"sha256">>, prim)

(***************************************************************************)
(* Signing                                                                 *)
(***************************************************************************)
\* self.param_pool
param_pool == <<"requesterNonce", "workOrderId", "workerId", "requesterId",
                "inData">>

\* self.tcs_worker, the WorkerConfig section of tcs_config.toml
tcs_worker == [HashingAlgorithm |-> "SHA-256", SigningAlgorithm |-> "SECP256K1"]

\* mutant: the per-item check forgets the index
payload_json_check_no_index(data) ==
    IF "params" \notin DOMAIN data THEN FALSE
    ELSE LET data_params == data.params
         IN IF FirstMissing(data_params, param_pool) # <<>> THEN FALSE
            ELSE \A i \in 1..Len(data_params.inData) :
                    LET obj == data_params.inData[i]
                    IN ~("data" \notin DOMAIN obj \/ obj.data = "")

\* __payload_json_check(json_data), data the parsed document
payload_json_check(data) ==
    IF "params" \notin DOMAIN data THEN FALSE
    ELSE LET data_params == data.params
         IN IF FirstMissing(data_params, param_pool) # <<>> THEN FALSE
            ELSE \A i \in 1..Len(data_params.inData) :
                    LET obj == data_params.inData[i]
                    IN ~("data" \notin DOMAIN obj \/ obj.data = ""
                         \/ "index" \notin DOMAIN obj)

\* one pass of the loop of __encrypt_workorder_indata
EncryptItem(item, session_key, session_iv, data_key, data_iv) ==
    LET e_key == item.encryptedDataEncryptionKey
    IN IF e_key = "" \/ e_key = "null"
       THEN [item EXCEPT !.data = byte_array_to_base64(
                                      encrypt_data(item.data, session_key,
                                                   session_iv))]
       ELSE IF e_key = "-"
       THEN [item EXCEPT !.data = byte_array_to_base64(item.data)]
       ELSE [item EXCEPT !.data = byte_array_to_base64(
                                      encrypt_data(item.data, data_key, data_iv))]

\* __encrypt_workorder_indata: value is input_json_params as the call leaves it
encrypt_workorder_indata(input_json_params, session_key, session_iv, data_key, data_iv) ==
    LET items == input_json_params.inData
        bad == {i \in 1..Len(items) :
                    "encryptedDataEncryptionKey" \notin DOMAIN items[i]}
        upto == IF bad = {} THEN Len(items)
                ELSE (CHOOSE i \in bad : \A j \in bad : i <= j) - 1
        tr == [i \in 1..Len(SelectSeq(SubSeq(items, 1, upto),
                   LAMBDA it : it.encryptedDataEncryptionKey # "-")) |-> "encrypt"]
        done == [i \in 1..Len(items) |->
                    IF i <= upto
                    THEN EncryptItem(items[i], session_key, session_iv,
                                     data_key, data_iv)
                    ELSE items[i]]
    IN [kind |-> IF bad = {} THEN "return" ELSE "raise",
        value |-> IF bad = {} THEN [input_json_params EXCEPT !.inData = done]
                  ELSE "KeyError",
        trace |-> tr]

\* utility.hex_utils.is_valid_hex_str on the nonces of the model
HexStrings == {"0a", "0b", "00112233445566778899aabbccddeeff",
               "ffeeddccbbaa99887766554433221100"}

is_valid_hex_str(x) == x \in HexStrings

\* values secrets.token_hex(NO_OF_BYTES) may produce
NO_OF_BYTES == 16

Tokens == {"00112233445566778899aabbccddeeff",
           "ffeeddccbbaa99887766554433221100"}

\* private keys that can sign; with any other value get_verifying_key or
\* sign_digest_deterministic raises
SigningKeys == {"k1", "k2"}

\* generate_signature(hash, private_key): status and signature returned, and
\* the object's fields as the call leaves them
generate_signature(hash, private_key, old_public_key) ==
    IF private_key \in SigningKeys
    THEN [status |-> TRUE,
          signature |-> signature_to_base64(
                            sign_digest_deterministic(private_key, hash)),
          private_key |-> private_key,
          public_key |-> get_verifying_key(private_key),
          trace |-> <<"sign">>]
    ELSE [status |-> FALSE,
          signature |-> signature_to_base64(MalformedDer),
          private_key |-> private_key,
          public_key |-> old_public_key,
          trace |-> <<>>]

\* what generate_client_signature returns: form "str" is a JSON document
\* (json its content), form "dict" the params dictionary itself
Returned(form, json, status, tr) ==
    Ret([payload |-> [form |-> form, json |-> json], status |-> status], tr)

\* lines 295-331: hashing, signing and attaching, from the params with the
\* final nonce
HashAndSign(input_json, params0, private_key, session_key, session_iv, encrypted_session_key) ==
    LET h1 == calculate_hash_on_concatenated_string(
                  params0, params0.requesterNonce)
        d2 == calculate_datahash(params0.inData)
        params1 == [params0 EXCEPT !.inData = d2.objects]
        hasOut == "outData" \in DOMAIN params1
        d3 == IF hasOut THEN calculate_datahash(params1.outData)
              ELSE [kind |-> "return", value |-> "", trace |-> <<>>,
                    objects |-> <<>>]
        params2 == IF hasOut THEN [params1 EXCEPT !.outData = d3.objects]
                   ELSE params1
    IN IF d2.kind = "raise"
       THEN Raise("KeyError", h1.trace \o d2.trace)
       ELSE IF d3.kind = "raise"
       THEN Raise("KeyError", h1.trace \o d2.trace \o d3.trace)
       ELSE
       LET final_hash == compute_message_hash(h1.value \o d2.value \o d3.value)
           encrypted_request_hash_str ==
               byte_array_to_hex_str(
                   encrypt_data(final_hash, session_key, session_iv))
           params3 == ("encryptedRequestHash" :> encrypted_request_hash_str)
                      @@ params2
           sg == generate_signature(final_hash, private_key, PyNone)
           tr == h1.trace \o d2.trace \o d3.trace \o <<"sha256", "encrypt">>
                 \o sg.trace
       IN IF ~sg.status
          THEN Returned("str", input_json, FAILED, tr)
          ELSE Returned("str",
                   [input_json EXCEPT !.params =
                       ("requesterSignature" :> sg.signature)
                       @@ ("encryptedSessionKey" :>
                              byte_array_to_hex_str(encrypted_session_key))
                       @@ ("verifyingKey" :> sg.public_key)
                       @@ params3],
                   PASSED, tr)

\* mutant: the hashes are taken over the inData as the caller passed it
HashAndSign_before_encryption(input_json, params0, private_key, session_key, session_iv, encrypted_session_key) ==
    HashAndSign(input_json,
                [params0 EXCEPT !.inData = input_json.params.inData],
                private_key, session_key, session_iv, encrypted_session_key)

\* lines 295-331 as generate_client_signature runs them, after the
\* encryption step and the nonce handling
HashSignStep(input_json, params0, private_key, session_key, session_iv, encrypted_session_key) ==
    HashAndSign(input_json, params0, private_key, session_key, session_iv,
                encrypted_session_key)

\* generate_client_signature(input_json_str, worker, private_key, session_key,
\*     session_iv, encrypted_session_key, data_key, data_iv); input_json is
\* the document input_json_str holds, token what secrets.token_hex returns
generate_client_signature(input_json, worker, private_key, session_key, session_iv, encrypted_session_key, data_key, data_iv, token) ==
    IF ~payload_json_check(input_json)
    THEN Returned("str", input_json, FAILED, <<>>)
    ELSE IF tcs_worker.HashingAlgorithm # worker.hashing_algorithm
    THEN Returned("str", input_json, FAILED, <<>>)
    ELSE IF tcs_worker.SigningAlgorithm # worker.signing_algorithm
    THEN Returned("str", input_json, FAILED, <<>>)
    ELSE
    LET withIv == ("sessionKeyIv" :> byte_array_to_hex_str(session_iv))
                  @@ input_json.params
        enc == encrypt_workorder_indata(withIv, session_key, session_iv,
                                        data_key, data_iv)
    IN IF enc.kind = "raise" THEN Raise(enc.value, enc.trace)
       ELSE IF "requesterNonce" \notin DOMAIN enc.value
       THEN Returned("dict", enc.value, FAILED, enc.trace)
       ELSE IF enc.value.requesterNonce # ""
               /\ ~is_valid_hex_str(enc.value.requesterNonce)
       THEN Returned("dict", enc.value, FAILED, enc.trace)
       ELSE LET params0 ==
                    IF enc.value.requesterNonce = ""
                    THEN [enc.value EXCEPT !.requesterNonce = token]
                    ELSE enc.value
                r == HashSignStep(input_json, params0, private_key,
                                  session_key, session_iv, encrypted_session_key)
            IN [r EXCEPT !.trace = enc.trace \o r.trace]

(***************************************************************************)
(* Inputs                                                                  *)
(***************************************************************************)
\* dict r with key f set to v[1] when v = <<x>>, left without f when v = <<>>
WithOpt(r, f, v) == IF v = <<>> THEN r ELSE (f :> v[1]) @@ r

\* dict r without key f
Without(r, f) == [k \in DOMAIN r \ {f} |-> r[k]]

SeqsUpTo(S, n) == UNION {[1..k -> S] : k \in 0..n}

\* data items handed to calculate_datahash
HashItems ==
    {WithOpt(WithOpt([index |-> i, data |-> d],
                     "encryptedDataEncryptionKey", e), "iv", v) :
        i \in 0..MaxIndex, d \in {"a", "ab"},
        e \in {<<>>, <<"b">>}, v \in {<<>>, <<"c">>}}

\* outData items of a response; the last lacks its index
OutItems ==
    {[index |-> 0, data |-> "x"],
     [index |-> 1, data |-> "y", dataHash |-> "d"],
     [data |-> "z"]}

\* the digest a response is signed over (4.1: header hash, then outData hash)
ResponseDigest(wo_response) ==
    LET h1 == calculate_hash_on_concatenated_string(
                  wo_response, OptField(wo_response, "workerNonce"))
        h2 == calculate_datahash(wo_response.outData)
    IN IF h1.kind = "return" /\ h2.kind = "return"
       THEN compute_message_hash(h1.value \o h2.value)
       ELSE "-"

\* signatures a payload may carry for digest d, expected signer k: by k over d,
\* by another key over d, by k over another digest, not DER, not base64
SignatureChoices(k, other, d) ==
    {signature_to_base64(sign_digest_deterministic(k, d)),
     signature_to_base64(sign_digest_deterministic(other, d)),
     signature_to_base64(sign_digest_deterministic(k, "H(other)")),
     signature_to_base64(MalformedDer),
     Undecodable}

\* the nonce the requester sent with the request
RequestNonce == "0a"

\* responses: with or without a verification-key assertion
Responses ==
    LET Base == {[workOrderId |-> "wo1", workerId |-> "w1",
                  requesterId |-> "r1", workerNonce |-> "wn", outData |-> od] :
                    od \in SeqsUpTo(OutItems, MaxOutItems)}
        Ext(b) == {b} \cup
                  UNION {{WithOpt(("extVerificationKey" :> e) @@ b,
                                  "extVerificationKeySignature", s) :
                            s \in {<<>>} \cup
                                  {<<x>> : x \in SignatureChoices(
                                       "kW", "kE",
                                       compute_message_hash(e \o RequestNonce))}} :
                         e \in {"PEM:kE", "garbage"}}
        Signed(b) == {b} \cup
                     {("workerSignature" :> x) @@ b :
                         x \in SignatureChoices(
                                  IF "extVerificationKey" \in DOMAIN b
                                  THEN "kE" ELSE "kW",
                                  IF "extVerificationKey" \in DOMAIN b
                                  THEN "kW" ELSE "kE",
                                  ResponseDigest(b))}
        NoNonce(b) == {b, Without(b, "workerNonce")}
    IN UNION {UNION {NoNonce(c) : c \in UNION {Signed(b) : b \in Ext(a)}} :
              a \in Base}

VerifySignatureInputs ==
    [wo_response : Responses,
     wo_res_verification_key : {"PEM:kW", "garbage"},
     requester_nonce : {<<>>, <<RequestNonce>>, <<"0b">>},
     prim : {"raise", "false"}]

UpdateReceipts ==
    LET Full(key, sig, t) ==
            [workOrderId |-> "wo1", updateType |-> t, updateData |-> "u",
             updateSignature |-> sig, receiptVerificationKey |-> key]
        All == {Full(key, sig, t) :
                  key \in {"PEM:k1", "garbage"},
                  sig \in SignatureChoices("k1", "k2",
                              compute_message_hash("wo1" \o Str(1) \o "u")),
                  t \in {0, 1}}
    IN All \cup UNION {{Without(r, f) : f \in DOMAIN r} : r \in All}

CreateReceipts ==
    LET Full(key, sig, st) ==
            [workOrderId |-> "wo1", workerServiceId |-> "s1", workerId |-> "w1",
             requesterId |-> "r1", receiptCreateStatus |-> st,
             workOrderRequestHash |-> "rh", requesterGeneratedNonce |-> "0a",
             requesterSignature |-> sig, receiptVerificationKey |-> key]
        All == {Full(key, sig, st) :
                  key \in {"PEM:k1", "garbage"},
                  sig \in SignatureChoices("k1", "k2",
                              compute_message_hash(
                                  "wo1" \o "s1" \o "w1" \o "r1" \o Str(0)
                                  \o "rh" \o "0a")),
                  st \in {0, 1}}
        Params == All \cup
                  UNION {{Without(r, f) :
                            f \in {"workOrderId", "requesterSignature",
                                   "receiptVerificationKey"}} : r \in All}
    IN {[params |-> p] : p \in Params} \cup {[id |-> 1]}

\* inData items of a request: every key mode, and three ill-shaped items
\* (empty data, no index, no data)
InItems ==
    {[index |-> 0, data |-> "p", encryptedDataEncryptionKey |-> e] :
        e \in {"", "-", "null", "ek"}}
    \cup {[index |-> 0, data |-> "p"]}
    \cup {[index |-> 1, data |-> "q", encryptedDataEncryptionKey |-> e] :
            e \in {"", "-"}}
    \cup {[index |-> 0, data |-> "", encryptedDataEncryptionKey |-> ""],
          [data |-> "p", encryptedDataEncryptionKey |-> ""],
          [index |-> 0, encryptedDataEncryptionKey |-> ""]}

\* request documents: complete ones, ones lacking one mandatory field, and a
\* document without params
Requests ==
    LET Full == {WithOpt([requesterNonce |-> n, workOrderId |-> w,
                          workerId |-> "w1", requesterId |-> "r1",
                          inData |-> ind], "outData", od) :
                    n \in {"", "0a", "zz"}, w \in {"wo1", ""},
                    ind \in SeqsUpTo(InItems, MaxInItems),
                    od \in {<<>>, <<(<<[index |-> 0, data |-> "o"]>>)>>}}
        Lacking == {Without([requesterNonce |-> "0a", workOrderId |-> "wo1",
                             workerId |-> "w1", requesterId |-> "r1",
                             inData |-> ind], f) :
                       f \in {param_pool[i] : i \in 1..Len(param_pool)},
                       ind \in SeqsUpTo(InItems, 1)}
    IN {[params |-> p] : p \in Full \cup Lacking} \cup {[id |-> 1]}

Workers ==
    {[hashing_algorithm |-> "SHA-256", signing_algorithm |-> "SECP256K1"],
     [hashing_algorithm |-> "KECCAK-256", signing_algorithm |-> "SECP256K1"],
     [hashing_algorithm |-> "SHA-256", signing_algorithm |-> "RSA-OAEP-3072"]}

(***************************************************************************)
(* State machine: one call on a ClientSignature object                     *)
(***************************************************************************)
NoValue == <<>>

InitThreads ==
    /\ self_private_key = PyNone
    /\ self_public_key = PyNone
    /\ tpc = <<>>
    /\ targ = <<>>
    /\ tret = <<>>

Init ==
    /\ pc = "idle"
    /\ op = "-"
    /\ inp = NoValue
    /\ out = NoValue
    /\ InitThreads

Done(name, input, outcome) ==
    /\ pc' = "done"
    /\ op' = name
    /\ inp' = input
    /\ out' = outcome

CalculateDatahash ==
    /\ pc = "idle"
    /\ \E data_objects \in SeqsUpTo(HashItems, MaxItems) :
          Done("calculate_datahash", data_objects,
               calculate_datahash(data_objects))
    /\ UNCHANGED thrVars

VerifySignature ==
    /\ pc = "idle"
    /\ \E i \in VerifySignatureInputs :
          Done("verify_signature", i,
               verify_signature(i.wo_response, i.wo_res_verification_key,
                                i.requester_nonce, i.prim))
    /\ UNCHANGED thrVars

VerifyUpdateReceiptSignature ==
    /\ pc = "idle"
    /\ \E input_json \in UpdateReceipts, prim \in {"raise", "false"} :
          Done("verify_update_receipt_signature",
               [input_json |-> input_json, prim |-> prim],
               verify_update_receipt_signature(input_json, prim))
    /\ UNCHANGED thrVars

VerifyCreateReceiptSignature ==
    /\ pc = "idle"
    /\ \E input_json \in CreateReceipts, prim \in {"raise", "false"} :
          Done("verify_create_receipt_signature",
               [input_json |-> input_json, prim |-> prim],
               verify_create_receipt_signature(input_json, prim))
    /\ UNCHANGED thrVars

GenerateClientSignature ==
    /\ pc = "idle"
    /\ \E input_json \in Requests, worker \in Workers,
          private_key \in {"k1", "broken"} :
          \E token \in IF "params" \in DOMAIN input_json
                          /\ "requesterNonce" \in DOMAIN input_json.params
                          /\ input_json.params.requesterNonce = ""
                       THEN Tokens
                       ELSE {CHOOSE t \in Tokens : TRUE} :
             Done("generate_client_signature",
                  [input_json |-> input_json, worker |-> worker,
                   private_key |-> private_key, token |-> token],
                  generate_client_signature(
                      input_json, worker, private_key, "sk", "siv", "esk",
                      "dk", "div", token))
    /\ UNCHANGED thrVars

Next ==
    \/ CalculateDatahash
    \/ VerifySignature
    \/ VerifyUpdateReceiptSignature
    \/ VerifyCreateReceiptSignature
    \/ GenerateClientSignature

Spec == Init /\ [][Next]_vars

(***************************************************************************)
(* Two callers of generate_client_signature on one ClientSignature object. *)
(* Each caller has passed the precondition checks and the hashing (which   *)
(* touch only its own locals) and holds its final_hash; the steps below    *)
(* are the statements of generate_signature and of lines 320-331, which    *)
(* read and write self.private_key and self.public_key.                    *)
(***************************************************************************)
Threads == {1, 2}

InitSeq ==
    /\ pc = "threads"
    /\ op = "-"
    /\ inp = NoValue
    /\ out = NoValue

InitT ==
    /\ InitSeq
    /\ self_private_key = PyNone
    /\ self_public_key = PyNone
    /\ tpc = [t \in Threads |-> "l212"]
    /\ targ \in {a \in [Threads -> [private_key : {"k1", "k2", "broken"},
                                    hash : {"H(req1)", "H(req2)"}]] :
                    a[1].private_key # a[2].private_key}
    /\ tret = [t \in Threads |->
                  [status |-> "-", requesterSignature |-> signature_to_base64(MalformedDer),
                   verifyingKey |-> "-"]]

\* line 212: self.private_key = private_key
T_AssignPrivateKey(t) ==
    /\ tpc[t] = "l212"
    /\ self_private_key' = targ[t].private_key
    /\ tpc' = [tpc EXCEPT ![t] = "l213"]
    /\ UNCHANGED <<self_public_key, targ, tret>>

\* lines 213-214: self.public_key = get_verifying_key(private_key); a value
\* that is no signing key raises, and the except clause returns False
T_AssignPublicKey(t) ==
    /\ tpc[t] = "l213"
    /\ IF targ[t].private_key \in SigningKeys
       THEN /\ self_public_key' = get_verifying_key(targ[t].private_key)
            /\ tpc' = [tpc EXCEPT ![t] = "l215"]
       ELSE /\ self_public_key' = self_public_key
            /\ tpc' = [tpc EXCEPT ![t] = "l322"]
    /\ UNCHANGED <<self_private_key, targ, tret>>

\* lines 215-226: self.private_key.sign_digest_deterministic(hash), base64
T_Sign(t) ==
    /\ tpc[t] = "l215"
    /\ IF self_private_key \in SigningKeys
       THEN /\ tret' = [tret EXCEPT ![t].requesterSignature =
                           signature_to_base64(sign_digest_deterministic(
                               self_private_key, targ[t].hash))]
            /\ tpc' = [tpc EXCEPT ![t] = "l323"]
       ELSE /\ tret' = tret
            /\ tpc' = [tpc EXCEPT ![t] = "l322"]
    /\ UNCHANGED <<self_private_key, self_public_key, targ>>

\* lines 321-322: status is False: return input_json_str, FAILED
T_ReturnFailed(t) ==
    /\ tpc[t] = "l322"
    /\ tret' = [tret EXCEPT ![t].status = FAILED]
    /\ tpc' = [tpc EXCEPT ![t] = "done"]
    /\ UNCHANGED <<self_private_key, self_public_key, targ>>

\* lines 323-331: attach the signature and self.public_key, return PASSED
T_AttachAndReturn(t) ==
    /\ tpc[t] = "l323"
    /\ tret' = [tret EXCEPT ![t].status = PASSED,
                            ![t].verifyingKey = self_public_key]
    /\ tpc' = [tpc EXCEPT ![t] = "done"]
    /\ UNCHANGED <<self_private_key, self_public_key, targ>>

AssignPrivateKey == \E t \in Threads : T_AssignPrivateKey(t) /\ UNCHANGED seqVars

AssignPublicKey == \E t \in Threads : T_AssignPublicKey(t) /\ UNCHANGED seqVars

Sign == \E t \in Threads : T_Sign(t) /\ UNCHANGED seqVars

ReturnFailed == \E t \in Threads : T_ReturnFailed(t) /\ UNCHANGED seqVars

AttachAndReturn == \E t \in Threads : T_AttachAndReturn(t) /\ UNCHANGED seqVars

NextT ==
    \/ AssignPrivateKey
    \/ AssignPublicKey
    \/ Sign
    \/ ReturnFailed
    \/ AttachAndReturn

SpecThreads == InitT /\ [][NextT]_vars

(***************************************************************************)
(* Properties                                                              *)
(***************************************************************************)
Range(f) == {f[i] : i \in DOMAIN f}

Called(name) == pc = "done" /\ op = name

VerifyOps == {"verify_signature", "verify_update_receipt_signature",
              "verify_create_receipt_signature"}

\* signature value sig decodes to a DER signature of digest d under key k
SignedBy(sig, k, d) ==
    sig.b64 /\ sig.bytes.der /\ sig.bytes.key = k /\ sig.bytes.digest = d

\* what step 1 returns on the arguments of the recorded verify_signature call
Step1Outcome ==
    verify_wo_verification_key_signature(
        inp.wo_response, inp.wo_res_verification_key, inp.requester_nonce,
        inp.prim)

\* C1: in verify_signature on a response carrying extVerificationKey, when
\* step 1 returns a status other than PASSED, verify_signature returns that
\* very status and step 2 is not invoked in the call.
C1_Step1FailureIsTheResult ==
    (Called("verify_signature")
        /\ "extVerificationKey" \in DOMAIN inp.wo_response
        /\ Step1Outcome.kind = "return" /\ Step1Outcome.value # PASSED)
    => /\ out.kind = "return"
       /\ out.value = Step1Outcome.value
       /\ Step2 \notin Range(out.trace)

C1_Witness ==
    /\ Called("verify_signature")
    /\ "extVerificationKey" \in DOMAIN inp.wo_response
    /\ Step1Outcome.kind = "return"
    /\ Step1Outcome.value = INVALID_SIGNATURE_FORMAT
    /\ out.value = INVALID_SIGNATURE_FORMAT
    /\ Step1 \in Range(out.trace)

\* C2: verify_signature returns PASSED only if the response signature
\* verified under a trusted key: with extVerificationKey present, the
\* assertion signature is a signature of sha256(extVerificationKey ++
\* requesterNonce) under the long-lived worker key and the response signature
\* is a signature of the response digest under extVerificationKey; with it
\* absent, the response signature is one under the long-lived worker key.
C2_PassedOnlyUnderTrustedKey ==
    (Called("verify_signature") /\ out.kind = "return" /\ out.value = PASSED)
    => LET r == inp.wo_response
           wk == from_pem(inp.wo_res_verification_key)
       IN /\ wk # <<>>
          /\ "workerSignature" \in DOMAIN r
          /\ IF "extVerificationKey" \in DOMAIN r
             THEN /\ inp.requester_nonce # <<>>
                  /\ "extVerificationKeySignature" \in DOMAIN r
                  /\ SignedBy(r.extVerificationKeySignature, wk[1],
                              compute_message_hash(
                                  r.extVerificationKey
                                  \o inp.requester_nonce[1]))
                  /\ from_pem(r.extVerificationKey) # <<>>
                  /\ SignedBy(r.workerSignature,
                              from_pem(r.extVerificationKey)[1],
                              ResponseDigest(r))
             ELSE SignedBy(r.workerSignature, wk[1], ResponseDigest(r))

C2_Witness ==
    /\ Called("verify_signature")
    /\ "extVerificationKey" \in DOMAIN inp.wo_response
    /\ out.kind = "return" /\ out.value = PASSED
    /\ Step2 \in Range(out.trace)
    /\ Len(inp.wo_response.outData) >= 2

\* C3: for any interleaving of two generate_client_signature calls on one
\* object with different private keys, each call that returns PASSED attaches
\* a requesterSignature made with its own private key and the verifyingKey of
\* its own private key.
C3_EachCallerSignsWithItsOwnKey ==
    \A t \in DOMAIN tpc :
        (tpc[t] = "done" /\ tret[t].status = PASSED)
        => /\ tret[t].requesterSignature =
                  signature_to_base64(sign_digest_deterministic(
                      targ[t].private_key, targ[t].hash))
           /\ tret[t].verifyingKey = get_verifying_key(targ[t].private_key)

\* C4: every public verification operation ends by returning one of PASSED,
\* FAILED, INVALID_SIGNATURE_FORMAT, INVALID_VERIFICATION_KEY: no exception
\* escapes it and it returns nothing else.
C4_VerificationReturnsAStatus ==
    (pc = "done" /\ op \in VerifyOps)
    => (out.kind = "return" /\ out.value \in SignatureStatus)

\* the params dictionary of what generate_client_signature returned
ReturnedParams ==
    IF out.value.payload.form = "dict" THEN out.value.payload.json
    ELSE IF "params" \in DOMAIN out.value.payload.json
    THEN out.value.payload.json.params
    ELSE <<>>

SigningArtifacts == {"sessionKeyIv", "encryptedRequestHash",
                     "requesterSignature", "encryptedSessionKey",
                     "verifyingKey"}

\* C5: whenever generate_client_signature returns FAILED, the payload it
\* returns carries none of sessionKeyIv, encryptedRequestHash,
\* requesterSignature, encryptedSessionKey, verifyingKey.
C5_NoArtifactsOnFailure ==
    (Called("generate_client_signature") /\ out.kind = "return"
        /\ out.value.status = FAILED)
    => SigningArtifacts \cap DOMAIN ReturnedParams = {}

\* the request passes the payload check and the algorithm checks
Accepted ==
    /\ "params" \in DOMAIN inp.input_json
    /\ FirstMissing(inp.input_json.params, param_pool) = <<>>
    /\ \A i \in 1..Len(inp.input_json.params.inData) :
          LET obj == inp.input_json.params.inData[i]
          IN "data" \in DOMAIN obj /\ obj.data # "" /\ "index" \in DOMAIN obj
    /\ inp.worker.hashing_algorithm = "SHA-256"
    /\ inp.worker.signing_algorithm = "SECP256K1"

\* C6: a non-empty requesterNonce that is not valid hex yields FAILED and a
\* returned payload that equals the caller's input in every field other than
\* requesterNonce; an empty requesterNonce is replaced by a generated value
\* of 32 hex characters and signing proceeds.
C6_BadNonceLeavesPayloadAlone ==
    (Called("generate_client_signature") /\ Accepted /\ out.kind = "return")
    => LET nonce == inp.input_json.params.requesterNonce
       IN /\ (nonce # "" /\ nonce \notin HexStrings)
             => /\ out.value.status = FAILED
                /\ DOMAIN ReturnedParams = DOMAIN inp.input_json.params
                /\ \A f \in DOMAIN ReturnedParams \ {"requesterNonce"} :
                      ReturnedParams[f] = inp.input_json.params[f]
          /\ (nonce = "" /\ inp.private_key \in SigningKeys)
             => /\ out.value.status = PASSED
                /\ Len(ReturnedParams.requesterNonce) = 2 * NO_OF_BYTES
                /\ ReturnedParams.requesterNonce \in HexStrings

\* a mandatory field is missing, an inData item lacks non-empty data or an
\* index, or the worker's algorithm differs from the configured one
PreconditionFails ==
    \/ "params" \notin DOMAIN inp.input_json
    \/ FirstMissing(inp.input_json.params, param_pool) # <<>>
    \/ \E i \in 1..Len(inp.input_json.params.inData) :
          LET obj == inp.input_json.params.inData[i]
          IN "data" \notin DOMAIN obj \/ obj.data = "" \/ "index" \notin DOMAIN obj
    \/ inp.worker.hashing_algorithm # "SHA-256"
    \/ inp.worker.signing_algorithm # "SECP256K1"

\* a mandatory field is present with an empty value
MandatoryFieldEmpty ==
    /\ "params" \in DOMAIN inp.input_json
    /\ \E i \in 1..Len(param_pool) :
          /\ param_pool[i] \in DOMAIN inp.input_json.params
          /\ inp.input_json.params[param_pool[i]] \in {"", <<>>}

RejectedUntouched ==
    /\ out.kind = "return"
    /\ out.value.status = FAILED
    /\ out.value.payload = [form |-> "str", json |-> inp.input_json]
    /\ out.trace = <<>>

\* C7 as stated: a missing or empty mandatory field, an inData item without
\* non-empty data or an index, or an algorithm mismatch yields FAILED with the
\* input payload unchanged and no encryption, hashing or signing executed.
C7_MissingOrEmptyRejected ==
    (Called("generate_client_signature")
        /\ (PreconditionFails \/ MandatoryFieldEmpty))
    => RejectedUntouched

\* C7 (amended): a missing mandatory field, an inData item without non-empty
\* data or an index, or an algorithm mismatch yields FAILED with the input
\* payload unchanged and no encryption, hashing or signing executed.
C7_MissingRejectedBeforeCrypto ==
    (Called("generate_client_signature") /\ PreconditionFails)
    => RejectedUntouched

C7_Witness ==
    /\ Called("generate_client_signature")
    /\ "params" \in DOMAIN inp.input_json
    /\ FirstMissing(inp.input_json.params, param_pool) = <<>>
    /\ Len(inp.input_json.params.inData) = 2
    /\ "index" \notin DOMAIN inp.input_json.params.inData[2]
    /\ "index" \in DOMAIN inp.input_json.params.inData[1]
    /\ inp.worker.hashing_algorithm = "SHA-256"
    /\ inp.worker.signing_algorithm = "SECP256K1"
    /\ RejectedUntouched

\* the PEM key the recorded verification call parses first, as <<pem>>
FirstKeyParsed ==
    IF op = "verify_signature" THEN <<inp.wo_res_verification_key>>
    ELSE IF op = "verify_update_receipt_signature"
    THEN IF "receiptVerificationKey" \in DOMAIN inp.input_json
         THEN <<inp.input_json.receiptVerificationKey>> ELSE <<>>
    ELSE IF "params" \in DOMAIN inp.input_json
            /\ "receiptVerificationKey" \in DOMAIN inp.input_json.params
    THEN <<inp.input_json.params.receiptVerificationKey>>
    ELSE <<>>

\* C8: in every verification operation a malformed PEM key is terminal and
\* found first: the result is INVALID_VERIFICATION_KEY whatever the payload
\* and signature hold, and no digest is computed, no signature decoded and
\* none verified in the call.
C8_MalformedKeyFoundFirst ==
    (pc = "done" /\ op \in VerifyOps /\ FirstKeyParsed # <<>>
        /\ from_pem(FirstKeyParsed[1]) = <<>>)
    => /\ out.kind = "return"
       /\ out.value = INVALID_VERIFICATION_KEY
       /\ Range(out.trace) \cap {"sha256", "b64decode", "verify_digest"} = {}

\* C9: when the response carries extVerificationKey and verify_signature is
\* called without a requesterNonce, the result is FAILED and no hashing, key
\* parsing, signature decoding or verification ran in the call.
C9_NoNonceFailsBeforeCrypto ==
    (Called("verify_signature")
        /\ "extVerificationKey" \in DOMAIN inp.wo_response
        /\ inp.requester_nonce = <<>>)
    => /\ out.kind = "return"
       /\ out.value = FAILED
       /\ Range(out.trace) \cap
             {"sha256", "from_pem", "b64decode", "verify_digest"} = {}

C9_Witness ==
    /\ Called("verify_signature")
    /\ "extVerificationKey" \in DOMAIN inp.wo_response
    /\ "extVerificationKeySignature" \in DOMAIN inp.wo_response
    /\ inp.requester_nonce = <<>>
    /\ out.value = FAILED
    /\ out.trace = <<Step1>>

\* the lists holding the same items as s in any order
Reorderings(s) ==
    {[i \in DOMAIN s |-> s[f[i]]] :
        f \in {g \in [DOMAIN s -> DOMAIN s] :
                 \A i, j \in DOMAIN s : g[i] = g[j] => i = j}}

DistinctIndexes(s) ==
    \A i, j \in DOMAIN s : s[i].index = s[j].index => i = j

\* C10 as stated: for every item sequence, also one in which two items share
\* an index, every permutation of the items gives the same result string.
C10_AnyPermutationSameHash ==
    Called("calculate_datahash")
    => \A q \in Reorderings(inp) : calculate_datahash(q).value = out.value

\* C10 (amended): for every item sequence whose items have pairwise different
\* indexes, every permutation of the items gives the same result string.
C10_PermutationSameHashDistinctIndexes ==
    (Called("calculate_datahash") /\ DistinctIndexes(inp))
    => \A q \in Reorderings(inp) : calculate_datahash(q).value = out.value

C10_Witness ==
    /\ Called("calculate_datahash")
    /\ Len(inp) = 2
    /\ inp[1].index > inp[2].index
    /\ inp[1].data # inp[2].data
    /\ out.kind = "return"
    /\ out.value = ItemHash(inp[2]) \o ItemHash(inp[1])

\* the list s with its i-th item replaced by x
ReplaceItem(s, i, x) == [s EXCEPT ![i] = x]

HashedFields == {"data", "encryptedDataEncryptionKey", "iv"}

\* the hashed fields in which items x and y hold different values (a field
\* an item lacks holds the empty value)
ChangedFields(x, y) == {f \in HashedFields : OptField(x, f) # OptField(y, f)}

\* C11 as stated: changing the index, data, encryptedDataEncryptionKey or iv
\* of one item, all else equal, changes the result of calculate_datahash; so
\* does a change of index that keeps the sorted order and a move of
\* characters across the boundary of two adjacent fields.
C11_AnyChangeChangesHash ==
    Called("calculate_datahash")
    => \A i \in DOMAIN inp : \A x \in HashItems :
          (x.index # inp[i].index \/ ChangedFields(x, inp[i]) # {})
          => calculate_datahash(ReplaceItem(inp, i, x)).value # out.value

\* C11 (amended): changing exactly one of data, encryptedDataEncryptionKey
\* or iv of one item, its index and all else equal, changes the result of
\* calculate_datahash.
C11_OneFieldChangeChangesHash ==
    Called("calculate_datahash")
    => \A i \in DOMAIN inp : \A x \in HashItems :
          (x.index = inp[i].index
              /\ Cardinality(ChangedFields(x, inp[i])) = 1)
          => calculate_datahash(ReplaceItem(inp, i, x)).value # out.value

C11_Witness ==
    /\ Called("calculate_datahash")
    /\ Len(inp) = 2
    /\ inp[1].index > inp[2].index
    /\ "iv" \in DOMAIN inp[1]
    /\ "encryptedDataEncryptionKey" \in DOMAIN inp[1]
    /\ out.kind = "return"
    /\ out.value # calculate_datahash(
                       ReplaceItem(inp, 1, Without(inp[1], "iv"))).value

\* the data value the encryption step is said to leave in an item: by the
\* session key and IV when encryptedDataEncryptionKey is empty or absent,
\* base64 of the plaintext when it is "-", by the data key and IV otherwise
ClaimedData(item) ==
    IF OptField(item, "encryptedDataEncryptionKey") = ""
    THEN byte_array_to_base64(encrypt_data(item.data, "sk", "siv"))
    ELSE IF item.encryptedDataEncryptionKey = "-"
    THEN byte_array_to_base64(item.data)
    ELSE byte_array_to_base64(encrypt_data(item.data, "dk", "div"))

\* C12: the inData encryption step picks each item's mode from
\* encryptedDataEncryptionKey: empty or absent -> session key and IV, "-" ->
\* base64 of the plaintext, any other value (such as "null") -> the per-item
\* data key and IV; and no value of the field makes the step raise.
C12_EncryptionModeByKeyField ==
    (Called("generate_client_signature") /\ Accepted)
    => /\ out.kind = "return"
       /\ out.value.status = PASSED
          => LET items == inp.input_json.params.inData
             IN ReturnedParams.inData \in
                   Reorderings([i \in DOMAIN items |->
                       [items[i] EXCEPT !.data = ClaimedData(items[i])]])

\* the digest 4.1 prescribes for request parameters p: header hash, inData
\* hash and, when present, outData hash, over the values p holds
RequestDigest(p) ==
    compute_message_hash(
        calculate_hash_on_concatenated_string(p, p.requesterNonce).value
        \o calculate_datahash(p.inData).value
        \o (IF "outData" \in DOMAIN p
            THEN calculate_datahash(p.outData).value ELSE ""))

\* the inData of the recorded request after the encryption step
EncryptedInData ==
    LET items == inp.input_json.params.inData
    IN [i \in DOMAIN items |->
           EncryptItem(items[i], "sk", "siv", "dk", "div")]

\* the number of inData items the encryption step encrypts
NumEncrypted ==
    Len(SelectSeq(inp.input_json.params.inData,
                  LAMBDA it : it.encryptedDataEncryptionKey # "-"))

\* C13: in every run of generate_client_signature that reaches hashing, the
\* encryption of every inData item is complete before the first hash is
\* computed, and the digest that is signed and encrypted into
\* encryptedRequestHash is the one over the post-encryption data values and
\* the final requesterNonce (the generated one when the caller's was empty).
C13_HashAfterEncryption ==
    (Called("generate_client_signature") /\ "sha256" \in Range(out.trace))
    => /\ Len(out.trace) > NumEncrypted
       /\ \A i \in 1..NumEncrypted : out.trace[i] = "encrypt"
       /\ out.trace[NumEncrypted + 1] = "sha256"
       /\ (out.kind = "return" /\ out.value.status = PASSED)
          => LET p == ReturnedParams
                 final == [inp.input_json.params EXCEPT
                              !.requesterNonce = p.requesterNonce,
                              !.inData = EncryptedInData]
             IN /\ p.requesterNonce # ""
                /\ inp.input_json.params.requesterNonce = ""
                   => p.requesterNonce = inp.token
                /\ p.inData \in Reorderings(EncryptedInData)
                /\ p.requesterSignature.bytes.digest = RequestDigest(final)
                /\ p.encryptedRequestHash =
                      byte_array_to_hex_str(
                          encrypt_data(RequestDigest(final), "sk", "siv"))

C13_Witness ==
    /\ Called("generate_client_signature")
    /\ out.kind = "return"
    /\ out.value.status = PASSED
    /\ inp.input_json.params.requesterNonce = ""
    /\ Len(inp.input_json.params.inData) = 2
    /\ NumEncrypted = 2
    /\ "outData" \in DOMAIN inp.input_json.params
    /\ ReturnedParams.requesterSignature.bytes.digest
          # RequestDigest(inp.input_json.params)

\* list t holds the items of list s in the same positions, at most the data
\* value of each replaced
SameItemsSamePlaces(s, t) ==
    /\ Len(t) = Len(s)
    /\ \A i \in DOMAIN s :
          /\ DOMAIN t[i] = DOMAIN s[i]
          /\ \A f \in DOMAIN s[i] \ {"data"} : t[i][f] = s[i][f]

\* C14: after a PASSED signing the returned inData lists the caller's items
\* in the same positions with their original index values, only each data
\* value replaced; and computing the data hash of a list (the request's
\* inData, a response's outData) leaves the list in the order it had.
C14_ItemOrderKept ==
    /\ (Called("generate_client_signature") /\ out.kind = "return"
           /\ out.value.status = PASSED)
       => SameItemsSamePlaces(inp.input_json.params.inData,
                              ReturnedParams.inData)
    /\ (Called("calculate_datahash") /\ out.kind = "return")
       => out.objects = inp

====
